---- MODULE Spec2Model ----
(***************************************************************************)
(* The user-management service of app/main.py: the users table of          *)
(* app/models.py behind the six request handlers, one action per request.  *)
(* A request runs in its own session.  Under Spec requests come one at a   *)
(* time, so a handler is one atomic step: lookup, flush, commit (or        *)
(* rollback) and the response.  Under SpecConcurrent several sessions are  *)
(* open at once and a handler is a sequence of steps, one per statement    *)
(* it sends to the database.                                               *)
(*                                                                         *)
(* Strings are TLA+ strings; Python's `in` on strings is the substring     *)
(* test Contains, and str(e) of an IntegrityError is built as text: the    *)
(* driver's message, the SQL statement and its parameters.                 *)
(***************************************************************************)
EXTENDS Integers, Sequences, FiniteSets, TLC

VARIABLES
    users,      \* the rows of table "users", in insertion order
    generated,  \* how many ids uuid.uuid4 has handed out to stored rows
    now,        \* the database clock behind func.now()
    req,        \* the request being answered
    resp,       \* the response to it
    sessions    \* the open sessions of concurrent requests, each with its
                \* handler's position and its uncommitted write

vars == <<users, generated, now, req, resp, sessions>>

----------------------------------------------------------------------------
(* Bounds and input universes *)

\* The number of rows ever inserted in one run.
MaxIds == 3

\* The number of requests in flight at once, each in its own session.
NumSessions == 2

Sessions == 1..NumSessions

\* The salts the password hasher may draw.
Salts == {"saltA"}

UsernameInputs == {"alice", "bob", "ab"}
EmailInputs == {"a@x.io", "b@x.io", "username@x.io", "nomail"}
PasswordInputs == {"password1", "short"}

\* Inputs at the edges of the UserCreate field constraints: usernames of 2, 3,
\* 50 and 51 characters, passwords of 7, 8, 100 and 101, and e-mail addresses
\* with each part missing in turn.
Ten == "abcdefghij"
Fifty == Ten \o Ten \o Ten \o Ten \o Ten
BoundaryUsernames == {"ab", "abc", Fifty, Fifty \o "x"}
BoundaryEmails == {"a@x.io", "b@x.io", "nomail", "a@b", "@x.io", "a@@x.io", "a@x."}
BoundaryPasswords == {"passwor", "password", Fifty \o Fifty, Fifty \o Fifty \o "x"}

HexDigits == <<"1", "2", "3", "4", "5", "6", "7", "8", "9", "a", "b", "c", "d", "e", "f">>

\* The n-th value uuid.uuid4 returns in a run (each one new).
uuid4(n) == "00000000-0000-4000-8000-00000000000" \o HexDigits[n]

\* The user_id path parameter is any string: the ids a run can hand out (the
\* last of them stays unused for a while) and one that is no UUID.
PathIds == {uuid4(n) : n \in 1..MaxIds} \cup {"not-a-uuid"}

\* Optional[...] of UserUpdate, and a query parameter with a default: <<>> is
\* None or left out, <<v>> is a supplied value.
Optional(S) == {<<>>} \cup {<<v>> : v \in S}

\* The skip and limit query parameters, each left out or supplied.
SkipInputs == Optional({1, 2})
LimitInputs == Optional({0, 1})

\* list_users(skip: int = 0, limit: int = 10)
DefaultSkip == 0
DefaultLimit == 10

Range(s) == {s[i] : i \in DOMAIN s}

----------------------------------------------------------------------------
(* Strings *)

\* Python's `w in s` for strings.
Contains(s, w) ==
    \E i \in 1..(Len(s) - Len(w) + 1) : SubSeq(s, i, i + Len(w) - 1) = w

CountChar(s, c) == Cardinality({i \in 1..Len(s) : SubSeq(s, i, i) = c})

HexChars == Range(HexDigits) \cup {"0"}

\* PostgreSQL's uuid input syntax, in its canonical 8-4-4-4-12 form.
IsUuid(s) ==
    /\ Len(s) = 36
    /\ \A i \in 1..36 :
          IF i \in {9, 14, 19, 24}
          THEN SubSeq(s, i, i) = "-"
          ELSE SubSeq(s, i, i) \in HexChars

\* The path ids the uuid column can be compared with.
UuidPathIds == {s \in PathIds : IsUuid(s)}

----------------------------------------------------------------------------
(* app/schemas.py *)

UsernameMinLength == 3
UsernameMaxLength == 50
PasswordMinLength == 8
PasswordMaxLength == 100

\* A username constraint without its maximum.
ValidUsernameNoMaximum(s) == Len(s) >= UsernameMinLength

ValidUsername(s) == Len(s) >= UsernameMinLength /\ Len(s) <= UsernameMaxLength

ValidPassword(s) == Len(s) >= PasswordMinLength /\ Len(s) <= PasswordMaxLength

\* EmailStr: one "@", a local part before it and a dotted domain after it.
ValidEmail(s) ==
    /\ CountChar(s, "@") = 1
    /\ \E i \in 2..(Len(s) - 1) :
          /\ SubSeq(s, i, i) = "@"
          /\ Contains(SubSeq(s, i + 1, Len(s)), ".")
          /\ SubSeq(s, Len(s), Len(s)) # "."
          /\ SubSeq(s, i + 1, i + 1) # "."

\* The inputs each field constraint accepts.
ValidUsernames == {s \in UsernameInputs \cup BoundaryUsernames : ValidUsername(s)}
ValidEmails == {s \in EmailInputs \cup BoundaryEmails : ValidEmail(s)}
ValidPasswords == {s \in PasswordInputs \cup BoundaryPasswords : ValidPassword(s)}

\* The field errors of a UserCreate body: the field and the rejected input.
UserCreateErrors(username, email, password) ==
    (IF username \in ValidUsernames THEN <<>>
     ELSE <<[loc |-> "username", input |-> username]>>)
    \o (IF email \in ValidEmails THEN <<>>
        ELSE <<[loc |-> "email", input |-> email]>>)
    \o (IF password \in ValidPasswords THEN <<>>
        ELSE <<[loc |-> "password", input |-> password]>>)

\* The field errors of a UserUpdate body; an omitted field (None) passes.
UserUpdateErrors(username, email) ==
    (IF username = <<>> \/ username[1] \in ValidUsernames THEN <<>>
     ELSE <<[loc |-> "username", input |-> username[1]]>>)
    \o (IF email = <<>> \/ email[1] \in ValidEmails THEN <<>>
        ELSE <<[loc |-> "email", input |-> email[1]]>>)

\* The row returned as it is, with no response model.
UserReadRow(row) == row

\* response_model=UserRead: the four fields read off the row.
UserRead(row) ==
    [id |-> row.id, username |-> row.username, email |-> row.email,
     created_at |-> row.created_at]

----------------------------------------------------------------------------
(* app/security.py *)

\* A salted one-way hash: the salt travels in the token.
hash_password(password, salt) ==
    [salt |-> salt, digest |-> <<salt, password>>]

verify_password(password, token) ==
    token.digest = <<token.salt, password>>

----------------------------------------------------------------------------
(* Responses *)

HTTP_200_OK == 200
HTTP_201_CREATED == 201
HTTP_204_NO_CONTENT == 204
HTTP_400_BAD_REQUEST == 400
HTTP_401_UNAUTHORIZED == 401
HTTP_404_NOT_FOUND == 404
HTTP_409_CONFLICT == 409

Response(code, detail, body, errors) ==
    [status |-> code, detail |-> detail, users |-> body, errors |-> errors,
     message |-> ""]

\* raise HTTPException(status_code, detail)
HTTPException(code, detail) == Response(code, detail, <<>>, <<>>)

\* An exception no handler catches.
ServerError == Response(500, "Internal Server Error", <<>>, <<>>)

\* The validation layer's answer, before the handler runs.
ValidationError(errors) == Response(422, "", <<>>, errors)

NotFound == HTTPException(HTTP_404_NOT_FOUND, "User not found")

\* return {"message": ...}
Message(text) ==
    [status |-> HTTP_200_OK, detail |-> "", users |-> <<>>, errors |-> <<>>,
     message |-> text]

----------------------------------------------------------------------------
(* app/models.py: table "users" *)

\* Column email declared without unique=True.
UniqueColumnsUsernameOnly == {"username"}

\* The columns declared unique=True; each has the unique index ix_users_<column>.
UniqueColumns == {"username", "email"}

IndexName(column) == "ix_users_" \o column

\* The unique indexes that writing `row` (its columns `columns`) would violate:
\* another row already holds the value.
Violations(table, row, columns) ==
    {c \in columns \cap UniqueColumns :
        \E i \in DOMAIN table : table[i].id # row.id /\ table[i][c] = row[c]}

\* The query with its filter left out.
RowsWithAnyId(table, user_id) == DOMAIN table

\* db.query(User).filter(User.id == user_id).first(): the positions holding the id.
RowsWithId(table, user_id) == {i \in DOMAIN table : table[i].id = user_id}

\* The username query with its filter left out.
RowsWithAnyUsername(table, username) == DOMAIN table

\* db.query(User).filter(User.username == username).first()
RowsWithUsername(table, username) ==
    {i \in DOMAIN table : table[i].username = username}

\* The delete never committed.
RemoveNothing(table, i) == table

\* A soft delete: the row loses its id and keeps its username and email.
SoftDelete(table, i) == [table EXCEPT ![i].id = "deleted"]

\* DELETE of the row at position i.
Remove(table, i) == SubSeq(table, 1, i - 1) \o SubSeq(table, i + 1, Len(table))

\* The bcrypt token as it is bound to the statement.
HashText(token) == "$2b$12$" \o token.salt

InsertStatement ==
    "INSERT INTO users (id, username, email, password_hash) VALUES "
    \o "(%(id)s::UUID, %(username)s, %(email)s, %(password_hash)s) "
    \o "RETURNING users.created_at"

InsertParameters(row) ==
    "{'id': UUID('" \o row.id \o "'), 'username': '" \o row.username
    \o "', 'email': '" \o row.email \o "', 'password_hash': '"
    \o HashText(row.password_hash) \o "'}"

\* The unit of work writes only the columns whose value changed.
UpdateStatement(columns) ==
    "UPDATE users SET "
    \o (IF "username" \in columns THEN "username=%(username)s" ELSE "")
    \o (IF columns = {"username", "email"} THEN ", " ELSE "")
    \o (IF "email" \in columns THEN "email=%(email)s" ELSE "")
    \o " WHERE users.id = %(users_id)s::UUID"

UpdateParameters(row, columns) ==
    "{"
    \o (IF "username" \in columns THEN "'username': '" \o row.username \o "', " ELSE "")
    \o (IF "email" \in columns THEN "'email': '" \o row.email \o "', " ELSE "")
    \o "'users_id': UUID('" \o row.id \o "')}"

\* str(e) of the IntegrityError raised for unique index ix_users_<column>: the
\* driver's message, then the statement and its parameters.
StrIntegrityError(column, value, statement, parameters) ==
    "(psycopg2.errors.UniqueViolation) duplicate key value violates unique "
    \o "constraint " \o IndexName(column) \o " DETAIL:  Key (" \o column
    \o ")=(" \o value \o ") already exists. [SQL: " \o statement
    \o "] [parameters: " \o parameters
    \o "] (Background on this error at: https://sqlalche.me/e/20/gkpj)"

----------------------------------------------------------------------------
(* app/main.py *)

\* The except block with its two tests in the other order.
ConflictResponseEmailFirst(text, fallback) ==
    IF Contains(text, "email")
    THEN HTTPException(HTTP_409_CONFLICT, "Email already exists")
    ELSE IF Contains(text, "username")
    THEN HTTPException(HTTP_409_CONFLICT, "Username already exists")
    ELSE HTTPException(HTTP_400_BAD_REQUEST, fallback)

\* The except block without its email branch.
ConflictResponseUsernameOnly(text, fallback) ==
    IF Contains(text, "username")
    THEN HTTPException(HTTP_409_CONFLICT, "Username already exists")
    ELSE HTTPException(HTTP_400_BAD_REQUEST, fallback)

\* The except IntegrityError block of create_user and update_user.
ConflictResponse(text, fallback) ==
    IF Contains(text, "username")
    THEN HTTPException(HTTP_409_CONFLICT, "Username already exists")
    ELSE IF Contains(text, "email")
    THEN HTTPException(HTTP_409_CONFLICT, "Email already exists")
    ELSE HTTPException(HTTP_400_BAD_REQUEST, fallback)

\* A session that no request has opened: SessionLocal() not yet called.
Idle ==
    [pc |-> "idle",
     req |-> [op |-> "none", id |-> "", username |-> <<>>, email |-> <<>>,
              password |-> ""],
     user |-> <<>>, pending |-> <<>>, resp |-> Response(0, "", <<>>, <<>>)]

Init ==
    /\ users = <<>>
    /\ generated = 0
    /\ now = 0
    /\ req = [op |-> "health"]
    /\ resp = Message("Application is running")
    /\ sessions = [s \in Sessions |-> Idle]

\* create_user(user_data), the request body already parsed into its fields.
CreateUserWith(username, email, password) ==
    LET errors == UserCreateErrors(username, email, password)
    IN  /\ req' = [op |-> "create", username |-> username, email |-> email,
                   password |-> password]
        /\ UNCHANGED sessions
        /\ IF errors # <<>>
           THEN /\ resp' = ValidationError(errors)
                /\ UNCHANGED <<users, generated, now>>
           ELSE \E salt \in Salts :
                LET db_user == [id |-> uuid4(generated + 1),
                                username |-> username, email |-> email,
                                password_hash |-> hash_password(password, salt),
                                created_at |-> now]
                    violated == Violations(users, db_user, UniqueColumns)
                IN  IF violated # {}
                    THEN /\ \E c \in violated :
                              resp' = ConflictResponse(
                                  StrIntegrityError(c, db_user[c], InsertStatement,
                                                    InsertParameters(db_user)),
                                  "User creation failed due to data conflict")
                         /\ UNCHANGED <<users, generated, now>>
                    ELSE /\ generated < MaxIds
                         /\ users' = Append(users, db_user)
                         /\ generated' = generated + 1
                         /\ now' = now + 1
                         /\ resp' = Response(HTTP_201_CREATED, "",
                                             <<UserRead(db_user)>>, <<>>)

\* POST /users
CreateUser ==
    \E username \in UsernameInputs, email \in EmailInputs,
       password \in PasswordInputs :
        CreateUserWith(username, email, password)

\* POST /users with a body at the edges of the field constraints.
CreateUserBoundary ==
    \E username \in BoundaryUsernames, email \in BoundaryEmails,
       password \in BoundaryPasswords :
        CreateUserWith(username, email, password)

\* GET /users/{user_id}
GetUser ==
    \E user_id \in PathIds :
        /\ req' = [op |-> "get", id |-> user_id]
        /\ UNCHANGED sessions
        /\ resp' = IF user_id \notin UuidPathIds THEN ServerError
                   ELSE IF RowsWithId(users, user_id) = {} THEN NotFound
                   ELSE LET i == CHOOSE i \in RowsWithId(users, user_id) : TRUE
                        IN  Response(HTTP_200_OK, "", <<UserRead(users[i])>>, <<>>)
        /\ UNCHANGED <<users, generated, now>>

\* The page that ignores its offset.
PageNoOffset(table, skip, limit) ==
    SubSeq(table, 1, IF limit < Len(table) THEN limit ELSE Len(table))

\* db.query(User).offset(skip).limit(limit).all()
Page(table, skip, limit) ==
    SubSeq(table, skip + 1,
           IF skip + limit < Len(table) THEN skip + limit ELSE Len(table))

\* GET /users?skip=..&limit=..
ListUsers ==
    \E skip \in SkipInputs, limit \in LimitInputs :
        LET page == Page(users,
                         IF skip = <<>> THEN DefaultSkip ELSE skip[1],
                         IF limit = <<>> THEN DefaultLimit ELSE limit[1])
        IN  /\ req' = [op |-> "list", skip |-> skip, limit |-> limit]
            /\ resp' = Response(HTTP_200_OK, "",
                                [i \in DOMAIN page |-> UserRead(page[i])], <<>>)
            /\ UNCHANGED <<users, generated, now, sessions>>

\* The assignments of a model whose created_at is also set on update.
ApplyUpdateTouch(user, username, email) ==
    [user EXCEPT !.username = IF username # <<>> THEN username[1] ELSE @,
                 !.email = IF email # <<>> THEN email[1] ELSE @,
                 !.created_at = now]

\* update_user's assignments: a field is written only when it was supplied.
ApplyUpdate(user, username, email) ==
    [user EXCEPT !.username = IF username # <<>> THEN username[1] ELSE @,
                 !.email = IF email # <<>> THEN email[1] ELSE @]

\* The columns of the row whose value differs from the stored one.
Changed(old, new) == {c \in {"username", "email"} : old[c] # new[c]}

\* A failed flush that keeps the columns that violated nothing.
RollbackPartial(table, i, new, violated) ==
    [table EXCEPT ![i] = [c \in DOMAIN new |->
                             IF c \in violated THEN table[i][c] ELSE new[c]]]

\* db.rollback() after the failed flush of row i: the table is as it was.
Rollback(table, i, new, violated) == table

\* PUT /users/{user_id}
UpdateUser ==
    \E user_id \in PathIds, username \in Optional(UsernameInputs),
       email \in Optional(EmailInputs) :
        LET errors == UserUpdateErrors(username, email)
            found == RowsWithId(users, user_id)
        IN  /\ req' = [op |-> "update", id |-> user_id,
                       user_data |-> [username |-> username, email |-> email]]
            /\ UNCHANGED <<generated, now, sessions>>
            /\ IF errors # <<>>
               THEN resp' = ValidationError(errors) /\ UNCHANGED users
               ELSE IF user_id \notin UuidPathIds
               THEN resp' = ServerError /\ UNCHANGED users
               ELSE IF found = {}
               THEN resp' = NotFound /\ UNCHANGED users
               ELSE LET i == CHOOSE i \in found : TRUE
                        user == ApplyUpdate(users[i], username, email)
                        columns == Changed(users[i], user)
                        violated == Violations(users, user, columns)
                    IN  IF violated # {}
                        THEN /\ \E c \in violated :
                                  resp' = ConflictResponse(
                                      StrIntegrityError(c, user[c], UpdateStatement(columns),
                                                        UpdateParameters(user, columns)),
                                      "Update failed due to data conflict")
                             /\ users' = Rollback(users, i, user, violated)
                        ELSE /\ users' = [users EXCEPT ![i] = user]
                             /\ resp' = Response(HTTP_200_OK, "", <<UserRead(user)>>, <<>>)

\* DELETE /users/{user_id}
DeleteUser ==
    \E user_id \in PathIds :
        LET found == RowsWithId(users, user_id)
        IN  /\ req' = [op |-> "delete", id |-> user_id]
            /\ UNCHANGED <<generated, now, sessions>>
            /\ IF user_id \notin UuidPathIds
               THEN resp' = ServerError /\ UNCHANGED users
               ELSE IF found = {}
               THEN resp' = NotFound /\ UNCHANGED users
               ELSE LET i == CHOOSE i \in found : TRUE
                    IN  /\ users' = Remove(users, i)
                        /\ resp' = Response(HTTP_204_NO_CONTENT, "", <<>>, <<>>)

\* POST /verify-password?username=..&password=..
VerifyUserPassword ==
    \E username \in UsernameInputs, password \in PasswordInputs :
        LET found == RowsWithUsername(users, username)
        IN  /\ req' = [op |-> "verify", username |-> username, password |-> password]
            /\ UNCHANGED <<users, generated, now, sessions>>
            /\ resp' = IF found = {} THEN NotFound
                       ELSE LET i == CHOOSE i \in found : TRUE
                            IN  IF ~verify_password(password, users[i].password_hash)
                                THEN HTTPException(HTTP_401_UNAUTHORIZED, "Invalid password")
                                ELSE Message("Password verified successfully")

\* GET /health
HealthCheck ==
    /\ req' = [op |-> "health"]
    /\ resp' = Message("Application is running")
    /\ UNCHANGED <<users, generated, now, sessions>>

Next ==
    \/ CreateUser
    \/ GetUser
    \/ ListUsers
    \/ UpdateUser
    \/ DeleteUser
    \/ VerifyUserPassword
    \/ HealthCheck

Spec == Init /\ [][Next]_vars

\* The service taking only Create requests, with bodies at the edges of the
\* field constraints.
NextValidation == CreateUserBoundary

SpecValidation == Init /\ [][NextValidation]_vars

----------------------------------------------------------------------------
(* Concurrent requests.  Each request has its own session (get_db) and its *)
(* own transaction, READ COMMITTED: a statement reads the committed table, *)
(* and a write stays in sessions[s].pending until db.commit().             *)

\* The requests in flight: all well-formed, so validation passes them.
ConcurrentUsernames == {"alice", "bob"}
ConcurrentEmails == {"a@x.io", "b@x.io"}
ConcurrentIds == {uuid4(1)}

ConcurrentRequests ==
    {[op |-> "create", id |-> "", username |-> <<u>>, email |-> <<e>>,
      password |-> "password1"] :
        u \in ConcurrentUsernames, e \in ConcurrentEmails}
    \cup {[op |-> "update", id |-> i, username |-> u, email |-> e,
           password |-> ""] :
            i \in ConcurrentIds, u \in Optional({"bob"}), e \in Optional({"b@x.io"})}
    \cup {[op |-> "delete", id |-> i, username |-> <<>>, email |-> <<>>,
           password |-> ""] : i \in ConcurrentIds}

\* The table before the requests arrive: empty, or holding the first user.
InitialTables ==
    {<<>>,
     <<[id |-> uuid4(1), username |-> "alice", email |-> "a@x.io",
        password_hash |-> hash_password("password1", "saltA"), created_at |-> 0]>>}

InitConcurrent ==
    /\ users \in InitialTables
    /\ generated = Len(users)
    /\ now = Len(users)
    /\ req = [op |-> "health"]
    /\ resp = Message("Application is running")
    /\ sessions = [s \in Sessions |-> Idle]

\* A database whose writers never wait for one another.
NeverWaits(s, row, columns) == FALSE

\* The statement of session s that writes `row` (its columns `columns`) waits:
\* another transaction's uncommitted write holds the lock of that row, or
\* holds a row version with the same value in a unique index.
Waits(s, row, columns) ==
    \E t \in Sessions \ {s} :
        /\ sessions[t].pending # <<>>
        /\ \E k \in DOMAIN sessions[t].pending[1].rows :
              LET other == sessions[t].pending[1].rows[k]
              IN  \/ other.id = row.id
                  \/ \E c \in columns \cap UniqueColumns : other[c] = row[c]

\* The handler of session s ends with `response`; get_db closes the session.
Finish(s, response) ==
    [sessions EXCEPT ![s] = [Idle EXCEPT !.pc = "done", !.req = sessions[s].req,
                                         !.resp = response]]

\* A request arrives and is given a session.
Receive(s) ==
    /\ sessions[s].pc = "idle"
    /\ \E r \in ConcurrentRequests :
          sessions' = [sessions EXCEPT ![s].pc = "begin", ![s].req = r]
    /\ UNCHANGED <<users, generated, now, req, resp>>

\* create_user up to the flush inside db.commit(): the INSERT.
CreateFlush(s) ==
    /\ sessions[s].pc = "begin"
    /\ sessions[s].req.op = "create"
    /\ UNCHANGED <<users, req, resp>>
    /\ \E salt \in Salts :
          LET r == sessions[s].req
              db_user == [id |-> uuid4(generated + 1),
                          username |-> r.username[1], email |-> r.email[1],
                          password_hash |-> hash_password(r.password, salt),
                          created_at |-> now]
              violated == Violations(users, db_user, UniqueColumns)
          IN  /\ ~Waits(s, db_user, UniqueColumns)
              /\ IF violated # {}
                 THEN /\ \E c \in violated :
                           sessions' = Finish(s, ConflictResponse(
                               StrIntegrityError(c, db_user[c], InsertStatement,
                                                 InsertParameters(db_user)),
                               "User creation failed due to data conflict"))
                      /\ UNCHANGED <<generated, now>>
                 ELSE /\ generated < MaxIds
                      /\ generated' = generated + 1
                      /\ now' = now + 1
                      /\ sessions' = [sessions EXCEPT
                            ![s].pc = "flushed",
                            ![s].user = <<db_user>>,
                            ![s].pending = <<[kind |-> "insert", rows |-> <<db_user>>]>>]

\* update_user and delete_user: db.query(User).filter(User.id == user_id).first()
Lookup(s) ==
    /\ sessions[s].pc = "begin"
    /\ sessions[s].req.op \in {"update", "delete"}
    /\ UNCHANGED <<users, generated, now, req, resp>>
    /\ LET found == RowsWithId(users, sessions[s].req.id)
       IN  IF found = {}
           THEN sessions' = Finish(s, NotFound)
           ELSE LET i == CHOOSE i \in found : TRUE
                IN  sessions' = [sessions EXCEPT ![s].pc = "found",
                                                 ![s].user = <<users[i]>>]

\* update_user's assignments and the flush inside db.commit(): the UPDATE of
\* the changed columns, which must match the one row the session loaded.
UpdateFlush(s) ==
    /\ sessions[s].pc = "found"
    /\ sessions[s].req.op = "update"
    /\ UNCHANGED <<users, generated, now, req, resp>>
    /\ LET r == sessions[s].req
           old == sessions[s].user[1]
           user == ApplyUpdate(old, r.username, r.email)
           columns == Changed(old, user)
           found == RowsWithId(users, user.id)
       IN  IF columns = {}
           THEN sessions' = [sessions EXCEPT ![s].pc = "flushed"]
           ELSE /\ ~Waits(s, user, columns)
                /\ IF found = {}
                   THEN sessions' = Finish(s, ServerError)
                   ELSE LET i == CHOOSE i \in found : TRUE
                            row == [c \in DOMAIN users[i] |->
                                       IF c \in columns THEN user[c] ELSE users[i][c]]
                            violated == Violations(users, row, columns)
                        IN  IF violated # {}
                            THEN \E c \in violated :
                                    sessions' = Finish(s, ConflictResponse(
                                        StrIntegrityError(c, row[c], UpdateStatement(columns),
                                                          UpdateParameters(row, columns)),
                                        "Update failed due to data conflict"))
                            ELSE sessions' = [sessions EXCEPT
                                    ![s].pc = "flushed",
                                    ![s].user = <<row>>,
                                    ![s].pending = <<[kind |-> "update",
                                                      rows |-> <<users[i], row>>]>>]

\* delete_user's db.delete(user) and the flush inside db.commit(): the DELETE,
\* which only warns when it matches no row.
DeleteFlush(s) ==
    /\ sessions[s].pc = "found"
    /\ sessions[s].req.op = "delete"
    /\ UNCHANGED <<users, generated, now, req, resp>>
    /\ LET user == sessions[s].user[1]
           found == RowsWithId(users, user.id)
       IN  /\ ~Waits(s, user, {})
           /\ IF found = {}
              THEN sessions' = [sessions EXCEPT ![s].pc = "flushed"]
              ELSE LET i == CHOOSE i \in found : TRUE
                   IN  sessions' = [sessions EXCEPT
                          ![s].pc = "flushed",
                          ![s].pending = <<[kind |-> "delete", rows |-> <<users[i]>>]>>]

\* The table after the write `w` is committed.
Committed(table, w) ==
    LET i == CHOOSE i \in RowsWithId(table, w.rows[1].id) : TRUE
    IN  IF w.kind = "insert" THEN Append(table, w.rows[1])
        ELSE IF w.kind = "update" THEN [table EXCEPT ![i] = w.rows[2]]
        ELSE Remove(table, i)

\* The COMMIT that ends db.commit(); delete_user returns after it.
Commit(s) ==
    /\ sessions[s].pc = "flushed"
    /\ UNCHANGED <<generated, now, req, resp>>
    /\ users' = IF sessions[s].pending = <<>> THEN users
                ELSE Committed(users, sessions[s].pending[1])
    /\ sessions' = IF sessions[s].req.op = "delete"
                   THEN Finish(s, Response(HTTP_204_NO_CONTENT, "", <<>>, <<>>))
                   ELSE [sessions EXCEPT ![s].pc = "committed", ![s].pending = <<>>]

\* db.refresh(user) of create_user and update_user, and the response.
Refresh(s) ==
    /\ sessions[s].pc = "committed"
    /\ UNCHANGED <<users, generated, now, req, resp>>
    /\ LET found == RowsWithId(users, sessions[s].user[1].id)
       IN  IF found = {}
           THEN sessions' = Finish(s, ServerError)
           ELSE LET i == CHOOSE i \in found : TRUE
                IN  sessions' = Finish(s, Response(
                        IF sessions[s].req.op = "create"
                        THEN HTTP_201_CREATED ELSE HTTP_200_OK,
                        "", <<UserRead(users[i])>>, <<>>))

NextConcurrent ==
    \/ \E s \in Sessions : Receive(s)
    \/ \E s \in Sessions : CreateFlush(s)
    \/ \E s \in Sessions : Lookup(s)
    \/ \E s \in Sessions : UpdateFlush(s)
    \/ \E s \in Sessions : DeleteFlush(s)
    \/ \E s \in Sessions : Commit(s)
    \/ \E s \in Sessions : Refresh(s)

SpecConcurrent == InitConcurrent /\ [][NextConcurrent]_vars

----------------------------------------------------------------------------
(* Properties.  A step of Next answers the request req' with resp'; users is *)
(* the table the request found and users' the table it left.               *)

Stored == Range(users)

ValidCreateBody(r) ==
    /\ r.username \in ValidUsernames
    /\ r.email \in ValidEmails
    /\ r.password \in ValidPasswords

ValidUpdateBody(r) ==
    UserUpdateErrors(r.user_data.username, r.user_data.email) = <<>>

UsernameHeld(username) == \E u \in Stored : u.username = username

EmailHeld(email) == \E u \in Stored : u.email = email

IdHeld(id) == \E u \in Stored : u.id = id

\* The ids uuid.uuid4 has handed out so far.
HandedOut == {uuid4(n) : n \in 1..generated}

\* An id that a row had and that no row has any more.
Deleted(id) == id \in HandedOut /\ ~IdHeld(id)

\* C1: in every reachable state no two stored users share a username and no
\* two stored users share an email.
C1_UniqueUsernameAndEmail ==
    \A i, j \in DOMAIN users :
        i # j => /\ users[i].username # users[j].username
                 /\ users[i].email # users[j].email

\* Two users are stored and a request that clashed with one of them has failed.
C1_Witness ==
    /\ Len(users) = 2
    /\ req.op \in {"create", "update"}
    /\ resp.status = HTTP_409_CONFLICT

\* C2: a Create whose username a stored user holds, whatever its email, is
\* answered 409 "Username already exists" and leaves the table as it was.
C2_DuplicateUsernameRejected ==
    [][(/\ req'.op = "create"
        /\ ValidCreateBody(req')
        /\ UsernameHeld(req'.username))
       => (/\ resp'.status = HTTP_409_CONFLICT
           /\ resp'.detail = "Username already exists"
           /\ users' = users)]_vars

\* A Create was refused whose username one stored user holds and whose email
\* another stored user holds.
C2_Witness ==
    /\ req.op = "create"
    /\ resp.status = HTTP_409_CONFLICT
    /\ resp.detail = "Username already exists"
    /\ \E u, v \in Stored :
          u # v /\ u.username = req.username /\ v.email = req.email

\* C3: a Create whose email a stored user holds and whose username no stored
\* user holds is answered 409 "Email already exists" and adds no record.
C3_DuplicateEmailClassified ==
    [][(/\ req'.op = "create"
        /\ ValidCreateBody(req')
        /\ EmailHeld(req'.email)
        /\ ~UsernameHeld(req'.username))
       => (/\ resp'.status = HTTP_409_CONFLICT
           /\ resp'.detail = "Email already exists"
           /\ users' = users)]_vars

\* The request is an Update of a stored user that supplies a username, or an
\* email, that another stored user holds.
UpdateUsernameClash(r) ==
    /\ r.user_data.username # <<>>
    /\ \E u, v \in Stored :
          u.id = r.id /\ v.id # r.id /\ v.username = r.user_data.username[1]

UpdateEmailClash(r) ==
    /\ r.user_data.email # <<>>
    /\ \E u, v \in Stored :
          u.id = r.id /\ v.id # r.id /\ v.email = r.user_data.email[1]

\* C4: every uniqueness violation raised on the commit of a Create or of an
\* Update is answered with status 409.
C4_ViolationAnswered409 ==
    [][(\/ /\ req'.op = "create"
           /\ ValidCreateBody(req')
           /\ (UsernameHeld(req'.username) \/ EmailHeld(req'.email))
        \/ /\ req'.op = "update"
           /\ ValidUpdateBody(req')
           /\ (UpdateUsernameClash(req') \/ UpdateEmailClash(req')))
       => resp'.status = HTTP_409_CONFLICT]_vars

\* An Update that supplied only an email another user holds was refused.
C4_Witness ==
    /\ req.op = "update"
    /\ req.user_data.username = <<>>
    /\ UpdateEmailClash(req)
    /\ resp.status = HTTP_409_CONFLICT

\* C5: a valid Create whose username and email no stored user holds returns 201
\* with a new id and a created_at and appends exactly one record, and a Get on
\* that id right after it returns 200 with the same id, username and email.
C5_CreateThenGet ==
    [][/\ (/\ req'.op = "create"
           /\ ValidCreateBody(req')
           /\ ~UsernameHeld(req'.username)
           /\ ~EmailHeld(req'.email))
          => (/\ resp'.status = HTTP_201_CREATED
              /\ Len(resp'.users) = 1
              /\ resp'.users[1].username = req'.username
              /\ resp'.users[1].email = req'.email
              /\ "created_at" \in DOMAIN resp'.users[1]
              /\ resp'.users[1].id \notin HandedOut
              /\ ~IdHeld(resp'.users[1].id)
              /\ Len(users') = Len(users) + 1
              /\ SubSeq(users', 1, Len(users)) = users
              /\ users'[Len(users')].id = resp'.users[1].id
              /\ users'[Len(users')].username = req'.username
              /\ users'[Len(users')].email = req'.email)
       /\ (/\ req.op = "create"
           /\ resp.status = HTTP_201_CREATED
           /\ req'.op = "get"
           /\ req'.id = resp.users[1].id)
          => (/\ resp'.status = HTTP_200_OK
              /\ Len(resp'.users) = 1
              /\ resp'.users[1].id = resp.users[1].id
              /\ resp'.users[1].username = req.username
              /\ resp'.users[1].email = req.email)]_vars

\* A second user has just been created.
C5_Witness ==
    /\ req.op = "create"
    /\ resp.status = HTTP_201_CREATED
    /\ Len(users) = 2
    /\ users[2].id = resp.users[1].id

\* The password a stored user was created with.
PasswordOf(u) == u.password_hash.digest[2]

\* C6: the users of a response body carry the fields id, username, email and
\* created_at and no other, and no text of a response is a stored user's
\* password.
C6_NoPasswordInResponses ==
    /\ \A i \in DOMAIN resp.users :
          DOMAIN resp.users[i] = {"id", "username", "email", "created_at"}
    /\ \A u \in Stored :
          /\ resp.detail # PasswordOf(u)
          /\ resp.message # PasswordOf(u)
          /\ \A i \in DOMAIN resp.errors : resp.errors[i].input # PasswordOf(u)
          /\ \A i \in DOMAIN resp.users :
                /\ resp.users[i].username # PasswordOf(u)
                /\ resp.users[i].email # PasswordOf(u)
                /\ resp.users[i].id # PasswordOf(u)

\* A List has returned two users.
C6_Witness ==
    /\ req.op = "list"
    /\ Len(resp.users) = 2

\* C7: Get, Update and Delete on an id that no stored user has return 404
\* "User not found" and leave the table as it was.
C7_UnknownIdNotFound ==
    [][(/\ req'.op \in {"get", "update", "delete"}
        /\ req'.op = "update" => ValidUpdateBody(req')
        /\ ~IdHeld(req'.id))
       => (/\ resp'.status = HTTP_404_NOT_FOUND
           /\ resp'.detail = "User not found"
           /\ users' = users)]_vars

\* C8: Delete of a stored user returns 204 and removes that row and no other;
\* an id that was deleted is never held again, and Get, Update and Delete on it
\* return 404.
C8_DeleteIsPermanent ==
    [][/\ (req'.op = "delete" /\ IdHeld(req'.id))
          => (/\ resp'.status = HTTP_204_NO_CONTENT
              /\ users' = SelectSeq(users, LAMBDA u : u.id # req'.id)
              /\ Len(users') = Len(users) - 1)
       /\ \A id \in PathIds :
             Deleted(id) => (\A i \in DOMAIN users' : users'[i].id # id)
       /\ (/\ req'.op \in {"get", "update", "delete"}
           /\ req'.op = "update" => ValidUpdateBody(req')
           /\ Deleted(req'.id))
          => resp'.status = HTTP_404_NOT_FOUND]_vars

\* A Delete of a deleted user's id has been answered 404 while another user
\* is stored.
C8_Witness ==
    /\ req.op = "delete"
    /\ Deleted(req.id)
    /\ resp.status = HTTP_404_NOT_FOUND
    /\ Len(users) = 1

\* C9: a successful Update writes the supplied fields of its user and nothing
\* else: an omitted username or email, and the id, password_hash and
\* created_at, keep their values, and every other row is as it was.
C9_UpdateFrame ==
    [][(req'.op = "update" /\ resp'.status = HTTP_200_OK)
       => (/\ DOMAIN users' = DOMAIN users
           /\ \E i \in DOMAIN users :
                 /\ users[i].id = req'.id
                 /\ users'[i] =
                       [id |-> users[i].id,
                        username |-> IF req'.user_data.username = <<>>
                                     THEN users[i].username
                                     ELSE req'.user_data.username[1],
                        email |-> IF req'.user_data.email = <<>>
                                  THEN users[i].email
                                  ELSE req'.user_data.email[1],
                        password_hash |-> users[i].password_hash,
                        created_at |-> users[i].created_at]
                 /\ \A j \in DOMAIN users : j # i => users'[j] = users[j])]_vars

\* An Update that supplied only an email has succeeded beside another user.
C9_Witness ==
    /\ req.op = "update"
    /\ resp.status = HTTP_200_OK
    /\ req.user_data.username = <<>>
    /\ req.user_data.email # <<>>
    /\ Len(users) = 2
    /\ \E u \in Stored : u.id = req.id /\ u.email = req.user_data.email[1]

\* C10: an Update that would give a stored user a username or an email that
\* another stored user holds is answered 409 (with "Username already exists"
\* when the username clashes) and leaves every row as it was.
C10_ConflictingUpdateWritesNothing ==
    [][(/\ req'.op = "update"
        /\ ValidUpdateBody(req')
        /\ (UpdateUsernameClash(req') \/ UpdateEmailClash(req')))
       => (/\ resp'.status = HTTP_409_CONFLICT
           /\ UpdateUsernameClash(req') => resp'.detail = "Username already exists"
           /\ users' = users)]_vars

\* An Update was refused for its username while the email it also supplied
\* was free and differs from the one its user still has.
C10_Witness ==
    /\ req.op = "update"
    /\ resp.status = HTTP_409_CONFLICT
    /\ req.user_data.email # <<>>
    /\ UpdateUsernameClash(req)
    /\ ~EmailHeld(req.user_data.email[1])

\* C11: VerifyPassword answers 404 when no stored user has the username, 200
\* when the stored user with that username was created with the password, and
\* 401 when it was created with another one; it leaves the table as it was.
C11_VerifyPassword ==
    [][req'.op = "verify"
       => (/\ users' = users
           /\ generated' = generated
           /\ IF ~UsernameHeld(req'.username)
              THEN resp'.status = HTTP_404_NOT_FOUND
              ELSE \A u \in Stored :
                      u.username = req'.username
                      => IF PasswordOf(u) = req'.password
                         THEN /\ resp'.status = HTTP_200_OK
                              /\ resp'.message = "Password verified successfully"
                         ELSE resp'.status = HTTP_401_UNAUTHORIZED)]_vars

\* A wrong password was refused for a user that a second user stands beside.
C11_Witness ==
    /\ req.op = "verify"
    /\ resp.status = HTTP_401_UNAUTHORIZED
    /\ Len(users) = 2
    /\ \E u \in Stored : u.username = req.username /\ PasswordOf(u) # req.password

Min(a, b) == IF a < b THEN a ELSE b

Max(a, b) == IF a > b THEN a ELSE b

\* C12: List over n stored users returns 200 with min(limit, max(0, n - skip))
\* users, the stored users at positions skip+1 .. skip+limit, each once; with
\* no users it returns the empty sequence; a parameter left out is skip 0,
\* limit 10.
C12_ListPage ==
    [][req'.op = "list"
       => LET skip == IF req'.skip = <<>> THEN 0 ELSE req'.skip[1]
              limit == IF req'.limit = <<>> THEN 10 ELSE req'.limit[1]
              n == Len(users)
          IN  /\ resp'.status = HTTP_200_OK
              /\ Len(resp'.users) = Min(limit, Max(0, n - skip))
              /\ \A i \in DOMAIN resp'.users :
                    resp'.users[i] =
                       [id |-> users[skip + i].id,
                        username |-> users[skip + i].username,
                        email |-> users[skip + i].email,
                        created_at |-> users[skip + i].created_at]
              /\ \A i, j \in DOMAIN resp'.users :
                    i # j => resp'.users[i].id # resp'.users[j].id
              /\ n = 0 => resp'.users = <<>>
              /\ users' = users]_vars

\* A List that skipped the first of two users has returned the second.
C12_Witness ==
    /\ req.op = "list"
    /\ req.skip = <<1>>
    /\ req.limit = <<>>
    /\ Len(users) = 2
    /\ Len(resp.users) = 1
    /\ resp.users[1].id = users[2].id

\* C13: a Create whose username has fewer than 3 or more than 50 characters,
\* whose password has fewer than 8 or more than 100, or whose e-mail address
\* is malformed is answered 422 and leaves the table as it was.
C13_InvalidCreateRejected ==
    [][(/\ req'.op = "create"
        /\ \/ Len(req'.username) < 3
           \/ Len(req'.username) > 50
           \/ Len(req'.password) < 8
           \/ Len(req'.password) > 100
           \/ req'.email \in {"nomail", "a@b", "@x.io", "a@@x.io", "a@x."})
       => (/\ resp'.status = 422
           /\ resp'.users = <<>>
           /\ users' = users
           /\ generated' = generated)]_vars

\* A 51-character username was refused next to a stored user whose username
\* has 50 characters and whose password has 100.
C13_Witness ==
    /\ req.op = "create"
    /\ Len(req.username) = 51
    /\ req.email = "b@x.io"
    /\ Len(req.password) = 8
    /\ resp.status = 422
    /\ \E u \in Stored : Len(u.username) = 50 /\ Len(PasswordOf(u)) = 100

\* The sessions whose handler has returned.
Done == {s \in Sessions : sessions[s].pc = "done"}

\* C14: of two concurrent Creates carrying the same username or the same
\* e-mail address, with no other kind of request in flight, each ends 201 or
\* 409, at most one ends 201, the one that ends 201 has its row stored, and
\* the table never holds a username or an e-mail address twice.
C14_ConcurrentCreates ==
    /\ \A i, j \in DOMAIN users :
          i # j => /\ users[i].username # users[j].username
                   /\ users[i].email # users[j].email
    /\ (\A r \in Sessions : sessions[r].req.op \in {"none", "create"})
       => \A s, t \in Done :
             (/\ s # t
              /\ \/ sessions[s].req.username = sessions[t].req.username
                 \/ sessions[s].req.email = sessions[t].req.email)
             => /\ sessions[s].resp.status \in {HTTP_201_CREATED, HTTP_409_CONFLICT}
                /\ ~(/\ sessions[s].resp.status = HTTP_201_CREATED
                     /\ sessions[t].resp.status = HTTP_201_CREATED)
                /\ sessions[s].resp.status = HTTP_201_CREATED
                   => \E u \in Stored :
                         /\ u.id = sessions[s].resp.users[1].id
                         /\ <<u.username>> = sessions[s].req.username
                         /\ <<u.email>> = sessions[s].req.email

\* Two Creates with one username and two e-mail addresses met an empty table:
\* one was stored and the other answered 409.
C14_Witness ==
    /\ Done = Sessions
    /\ sessions[1].req.op = "create"
    /\ sessions[2].req.op = "create"
    /\ sessions[1].req.username = sessions[2].req.username
    /\ sessions[1].req.email # sessions[2].req.email
    /\ sessions[1].resp.status = HTTP_409_CONFLICT
    /\ sessions[2].resp.status = HTTP_201_CREATED
    /\ Len(users) = 1
    /\ generated = 1

\* C15: every concurrent Delete ends 204 or 404 and every concurrent Update
\* ends 200, 404 or 409.
C15_OnlyDocumentedOutcomes ==
    \A s \in Done :
        /\ sessions[s].req.op = "delete"
           => sessions[s].resp.status \in {HTTP_204_NO_CONTENT, HTTP_404_NOT_FOUND}
        /\ sessions[s].req.op = "update"
           => sessions[s].resp.status \in
                 {HTTP_200_OK, HTTP_404_NOT_FOUND, HTTP_409_CONFLICT}

\* C16: uniqueness binds only stored users.  A Delete leaves the deleted
\* user's id, username and e-mail address held by no stored user; a Create
\* whose username and e-mail address no stored user holds, whether or not a
\* deleted user had them, returns 201 and stores them under an id that was
\* never handed out before, so not under a deleted user's id; and an Update
\* that supplies values no other stored user holds returns 200 and stores them.
C16_DeletedValuesAreFree ==
    [][/\ (req'.op = "delete" /\ resp'.status = HTTP_204_NO_CONTENT)
          => \A d \in Stored :
                d.id = req'.id
                => \A i \in DOMAIN users' :
                      /\ users'[i].id # d.id
                      /\ users'[i].username # d.username
                      /\ users'[i].email # d.email
       /\ (/\ req'.op = "create"
           /\ ValidCreateBody(req')
           /\ ~UsernameHeld(req'.username)
           /\ ~EmailHeld(req'.email))
          => (/\ resp'.status = HTTP_201_CREATED
              /\ Len(users') = Len(users) + 1
              /\ users'[Len(users')].username = req'.username
              /\ users'[Len(users')].email = req'.email
              /\ users'[Len(users')].id = resp'.users[1].id
              /\ resp'.users[1].id \notin HandedOut
              /\ \A id \in PathIds : Deleted(id) => resp'.users[1].id # id)
       /\ (/\ req'.op = "update"
           /\ ValidUpdateBody(req')
           /\ IdHeld(req'.id)
           /\ ~UpdateUsernameClash(req')
           /\ ~UpdateEmailClash(req'))
          => (/\ resp'.status = HTTP_200_OK
              /\ \E i \in DOMAIN users' :
                    /\ users'[i].id = req'.id
                    /\ req'.user_data.username # <<>>
                       => users'[i].username = req'.user_data.username[1]
                    /\ req'.user_data.email # <<>>
                       => users'[i].email = req'.user_data.email[1])]_vars

\* The first user was deleted and a Create has then stored a user: the table
\* holds only the new user, under the second id.
C16_Witness ==
    /\ req.op = "create"
    /\ resp.status = HTTP_201_CREATED
    /\ generated = 2
    /\ Deleted(uuid4(1))
    /\ Len(users) = 1
    /\ users[1].id = uuid4(2)
    /\ users[1].username = req.username
    /\ resp.users[1].id = uuid4(2)

====
